---- MODULE Spec2Model ----
(***************************************************************************)
(* A model of package uuid: the 16-byte UUID value, its text codec         *)
(* (UnmarshalText / MarshalText / String / FromString), its binary codec   *)
(* (UnmarshalBinary / MarshalBinary / FromBytes), the version and variant  *)
(* accessors and setters, and the V1 / V6 timestamp extractors.            *)
(*                                                                         *)
(* Bytes are naturals below 256, a UUID is a function 0..15 -> byte (the   *)
(* Go array, with Go's indices), a []byte is a sequence of bytes and a     *)
(* character is its ASCII code.  Go's 32 and 64 bit unsigned integers do   *)
(* not fit TLC's integers, so they are little-endian sequences of 4-bit    *)
(* digits with explicit carry and truncation.                              *)
(***************************************************************************)
EXTENDS Integers, Sequences, FiniteSets, TLC

VARIABLES
    u,      \* the receiver: the UUID the methods are called on
    pre,    \* the receiver's value before the last call
    input,  \* the []byte / string argument of the call
    out,    \* the []byte / string the last encoder returned
    res,    \* the UUID the last FromString / FromBytes returned
    ret,    \* the byte the last Version() / Variant() returned
    ts,     \* the Timestamp the last TimestampFromV1 / V6 returned
    err,    \* whether the last call returned a non-nil error
    pc,     \* the last call made ("start" before any)
    calls,  \* the setter calls made so far, oldest first, each with the
            \* receiver's value before it
    orig    \* the receiver's value before any call

vars == <<u, pre, input, out, res, ret, ts, err, pc, calls, orig>>

----------------------------------------------------------------------------
(* Go's operators on unsigned bytes *)

RECURSIVE And(_, _)
And(a, b) ==
    IF a = 0 \/ b = 0 THEN 0
    ELSE (a % 2) * (b % 2) + 2 * And(a \div 2, b \div 2)

RECURSIVE Or(_, _)
Or(a, b) ==
    IF a = 0 THEN b
    ELSE IF b = 0 THEN a
    ELSE (IF a % 2 = 1 \/ b % 2 = 1 THEN 1 ELSE 0) + 2 * Or(a \div 2, b \div 2)

Shr(a, k) == a \div (2 ^ k)

\* a << k on a byte: the bits shifted out are lost
Shl8(a, k) == (a * (2 ^ k)) % 256

\* c - d on a byte wraps
Sub8(c, d) == (c - d + 256) % 256

----------------------------------------------------------------------------
(* The value type *)

Size == 16

Byte == 0..255

Nil == [i \in 0..(Size - 1) |-> 0]

VariantNCS == 0
VariantRFC4122 == 1
VariantMicrosoft == 2
VariantFuture == 3

\* t[i] and t[a:b] of a Go slice held as a sequence
At(t, i) == t[i + 1]

Slice(t, a, b) == SubSeq(t, a + 1, b)

----------------------------------------------------------------------------
(* Text decode *)

urnPrefix == <<117, 114, 110, 58, 117, 117, 105, 100, 58>>

Failed(v) == [u |-> v, err |-> TRUE]

Done(v) == [u |-> v, err |-> FALSE]

\* fault: fromHexChar without its 'A'..'F' case
fromHexCharNoUpper(c) ==
    IF 48 <= c /\ c <= 57 THEN <<Sub8(c, 48), TRUE>>
    ELSE IF 97 <= c /\ c <= 102 THEN <<Sub8(c, 97) + 10, TRUE>>
    ELSE <<0, FALSE>>

fromHexChar(c) ==
    IF 48 <= c /\ c <= 57 THEN <<Sub8(c, 48), TRUE>>
    ELSE IF 97 <= c /\ c <= 102 THEN <<Sub8(c, 97) + 10, TRUE>>
    ELSE IF 65 <= c /\ c <= 70 THEN <<Sub8(c, 65) + 10, TRUE>>
    ELSE <<0, FALSE>>

canonicalOffsets == <<0, 2, 4, 6, 9, 11, 14, 16, 19, 21, 24, 26, 28, 30, 32, 34>>

\* the range loop of decodeCanonical from its i-th iteration: each pair is
\* written into the receiver as soon as it is decoded
RECURSIVE decodeCanonicalFrom(_, _, _)
decodeCanonicalFrom(v, t, i) ==
    IF i = Size THEN Done(v)
    ELSE LET x == canonicalOffsets[i + 1]
             a == fromHexChar(At(t, x))
             b == fromHexChar(At(t, x + 1))
         IN  IF a[2] /\ b[2]
             THEN decodeCanonicalFrom([v EXCEPT ![i] = Or(Shl8(a[1], 4), b[1])], t, i + 1)
             ELSE Failed(v)

decodeCanonical(v, t) ==
    IF At(t, 8) # 45 \/ At(t, 13) # 45 \/ At(t, 18) # 45 \/ At(t, 23) # 45
    THEN Failed(v)
    ELSE decodeCanonicalFrom(v, t, 0)

\* the loop of decodeHashLike from index i (i = 0, 2, ..., 30)
RECURSIVE decodeHashLikeFrom(_, _, _)
decodeHashLikeFrom(v, t, i) ==
    IF ~(i < 32) THEN Done(v)
    ELSE LET a == fromHexChar(At(t, i))
             b == fromHexChar(At(t, i + 1))
         IN  IF a[2] /\ b[2]
             THEN decodeHashLikeFrom([v EXCEPT ![i \div 2] = Or(Shl8(a[1], 4), b[1])], t, i + 2)
             ELSE Failed(v)

decodeHashLike(v, t) == decodeHashLikeFrom(v, t, 0)

\* the tail of UnmarshalText, after the length switch has stripped the text
decodeStripped(v, t) ==
    IF Len(t) = 36 THEN decodeCanonical(v, t) ELSE decodeHashLike(v, t)

\* fault: UnmarshalText that does not look at the closing brace
UnmarshalTextNoCloseBrace(v, text) ==
    LET n == Len(text) IN
    IF n = 32 \/ n = 36 THEN decodeStripped(v, text)
    ELSE IF n = 34 \/ n = 38 THEN
        IF At(text, 0) # 123 THEN Failed(v)
        ELSE decodeStripped(v, Slice(text, 1, n - 1))
    ELSE IF n = 41 \/ n = 45 THEN
        IF Slice(text, 0, 9) # urnPrefix THEN Failed(v)
        ELSE decodeStripped(v, Slice(text, 9, n))
    ELSE Failed(v)

UnmarshalText(v, text) ==
    LET n == Len(text) IN
    IF n = 32 \/ n = 36 THEN decodeStripped(v, text)
    ELSE IF n = 34 \/ n = 38 THEN
        IF At(text, 0) # 123 \/ At(text, n - 1) # 125 THEN Failed(v)
        ELSE decodeStripped(v, Slice(text, 1, n - 1))
    ELSE IF n = 41 \/ n = 45 THEN
        IF Slice(text, 0, 9) # urnPrefix THEN Failed(v)
        ELSE decodeStripped(v, Slice(text, 9, n))
    ELSE Failed(v)

\* u := UUID{}; err := u.UnmarshalText([]byte(input)); return u, err
FromString(s) == UnmarshalText(Nil, s)

----------------------------------------------------------------------------
(* Text encode *)

\* fault: the upper-case table "0123456789ABCDEF"
hextableUpper == <<48, 49, 50, 51, 52, 53, 54, 55, 56, 57, 65, 66, 67, 68, 69, 70>>

\* encoding/hex's table "0123456789abcdef"
hextable == <<48, 49, 50, 51, 52, 53, 54, 55, 56, 57, 97, 98, 99, 100, 101, 102>>

\* u[a:b] as a sequence
Sub(v, a, b) == [k \in 1..(b - a) |-> v[a + k - 1]]

\* hex.Encode(dst[off:], src) from src's i-th byte on: two digits per byte
RECURSIVE hexEncodeFrom(_, _, _, _)
hexEncodeFrom(dst, off, src, i) ==
    IF i = Len(src) THEN dst
    ELSE LET b == At(src, i)
             d == [dst EXCEPT ![off + 2 * i + 1] = hextable[Shr(b, 4) + 1],
                              ![off + 2 * i + 2] = hextable[And(b, 15) + 1]]
         IN  hexEncodeFrom(d, off, src, i + 1)

hexEncode(dst, off, src) == hexEncodeFrom(dst, off, src, 0)

\* fault: encodeHex whose last group is u[9:15]
encodeHexShiftedGroup(dst, v) ==
    LET d1 == hexEncode(dst, 0, Sub(v, 0, 4))
        d2 == [d1 EXCEPT ![8 + 1] = 45]
        d3 == hexEncode(d2, 9, Sub(v, 4, 6))
        d4 == [d3 EXCEPT ![13 + 1] = 45]
        d5 == hexEncode(d4, 14, Sub(v, 6, 8))
        d6 == [d5 EXCEPT ![18 + 1] = 45]
        d7 == hexEncode(d6, 19, Sub(v, 8, 10))
        d8 == [d7 EXCEPT ![23 + 1] = 45]
    IN  hexEncode(d8, 24, Sub(v, 9, 15))

encodeHex(dst, v) ==
    LET d1 == hexEncode(dst, 0, Sub(v, 0, 4))
        d2 == [d1 EXCEPT ![8 + 1] = 45]
        d3 == hexEncode(d2, 9, Sub(v, 4, 6))
        d4 == [d3 EXCEPT ![13 + 1] = 45]
        d5 == hexEncode(d4, 14, Sub(v, 6, 8))
        d6 == [d5 EXCEPT ![18 + 1] = 45]
        d7 == hexEncode(d6, 19, Sub(v, 8, 10))
        d8 == [d7 EXCEPT ![23 + 1] = 45]
    IN  hexEncode(d8, 24, Sub(v, 10, Size))

\* var buf [36]byte
buf36 == [k \in 1..36 |-> 0]

String(v) == encodeHex(buf36, v)

MarshalText(v) == encodeHex(buf36, v)

----------------------------------------------------------------------------
(* Binary codec *)

\* u[:]
Bytes(v) == Sub(v, 0, Size)

MarshalBinary(v) == Bytes(v)

\* copy(u[:], data): as many bytes as both hold
copy(v, data) ==
    [i \in 0..(Size - 1) |-> IF i < Len(data) THEN At(data, i) ELSE v[i]]

\* fault: UnmarshalBinary that only rejects slices that are too short
UnmarshalBinaryAtLeast(v, data) ==
    IF Len(data) < Size THEN Failed(v) ELSE Done(copy(v, data))

UnmarshalBinary(v, data) ==
    IF Len(data) # Size THEN Failed(v) ELSE Done(copy(v, data))

\* u := UUID{}; err := u.UnmarshalBinary(input); return u, err
FromBytes(data) == UnmarshalBinary(Nil, data)

----------------------------------------------------------------------------
(* Version and variant *)

Version(v) == Shr(v[6], 4)

\* fault: the RFC4122 case compared with 0x03
VariantArmWrongRFC(v) ==
    IF Shr(v[8], 7) = 0 THEN 1
    ELSE IF Shr(v[8], 6) = 3 THEN 2
    ELSE IF Shr(v[8], 5) = 6 THEN 3
    ELSE IF Shr(v[8], 5) = 7 THEN 4
    ELSE 5

\* the arm of Variant's switch that is taken: 1..4 are its cases in order,
\* 5 is default
VariantArm(v) ==
    IF Shr(v[8], 7) = 0 THEN 1
    ELSE IF Shr(v[8], 6) = 2 THEN 2
    ELSE IF Shr(v[8], 5) = 6 THEN 3
    ELSE IF Shr(v[8], 5) = 7 THEN 4
    ELSE 5

Variant(v) ==
    LET arm == VariantArm(v) IN
    IF arm = 1 THEN VariantNCS
    ELSE IF arm = 2 THEN VariantRFC4122
    ELSE IF arm = 3 THEN VariantMicrosoft
    ELSE VariantFuture

\* fault: SetVersion that does not clear the old version
SetVersionNoMask(v, ver) ==
    [v EXCEPT ![6] = Or(v[6], Shl8(ver, 4))]

SetVersion(v, ver) ==
    [v EXCEPT ![6] = Or(And(v[6], 15), Shl8(ver, 4))]

\* fault: SetVariant whose NCS case masks with 0xff>>2
SetVariantWideNCS(v, x) ==
    IF x = VariantNCS THEN [v EXCEPT ![8] = Or(And(v[8], Shr(255, 2)), Shl8(0, 7))]
    ELSE IF x = VariantRFC4122 THEN [v EXCEPT ![8] = Or(And(v[8], Shr(255, 2)), Shl8(2, 6))]
    ELSE IF x = VariantMicrosoft THEN [v EXCEPT ![8] = Or(And(v[8], Shr(255, 3)), Shl8(6, 5))]
    ELSE [v EXCEPT ![8] = Or(And(v[8], Shr(255, 3)), Shl8(7, 5))]

SetVariant(v, x) ==
    IF x = VariantNCS THEN [v EXCEPT ![8] = Or(And(v[8], Shr(255, 1)), Shl8(0, 7))]
    ELSE IF x = VariantRFC4122 THEN [v EXCEPT ![8] = Or(And(v[8], Shr(255, 2)), Shl8(2, 6))]
    ELSE IF x = VariantMicrosoft THEN [v EXCEPT ![8] = Or(And(v[8], Shr(255, 3)), Shl8(6, 5))]
    ELSE [v EXCEPT ![8] = Or(And(v[8], Shr(255, 3)), Shl8(7, 5))]

----------------------------------------------------------------------------
(* Timestamps.  A uint32 is 8 and a uint64 is 16 hexadecimal digits, the    *)
(* least significant first.                                                *)

Zero64 == [k \in 1..16 |-> 0]

\* binary.BigEndian.Uint16(b): a value below 2^16
BigEndianUint16(b) == Or(At(b, 1), At(b, 0) * (2 ^ 8))

\* binary.BigEndian.Uint32(b), as 8 digits
BigEndianUint32(b) ==
    <<And(At(b, 3), 15), Shr(At(b, 3), 4), And(At(b, 2), 15), Shr(At(b, 2), 4),
      And(At(b, 1), 15), Shr(At(b, 1), 4), And(At(b, 0), 15), Shr(At(b, 0), 4)>>

\* uint64(x) of a uint32
Uint64From32(d) == [k \in 1..16 |-> IF k <= 8 THEN d[k] ELSE 0]

\* uint64(x) of a uint16
Uint64From16(n) == [k \in 1..16 |-> IF k <= 4 THEN (n \div (16 ^ (k - 1))) % 16 ELSE 0]

\* w << k on a uint64, k a multiple of 4: the digits shifted out are lost
Shl64(w, k) == [j \in 1..16 |-> IF j - (k \div 4) >= 1 THEN w[j - (k \div 4)] ELSE 0]

\* a + b on uint64 from digit j with carry c: wraps at 2^64
RECURSIVE Add64From(_, _, _, _)
Add64From(a, b, j, c) ==
    IF j > 16 THEN <<>>
    ELSE <<(a[j] + b[j] + c) % 16>> \o Add64From(a, b, j + 1, (a[j] + b[j] + c) \div 16)

Add64(a, b) == Add64From(a, b, 1, 0)

\* fault: TimestampFromV1 that keeps the version nibble in time_hi
TimestampFromV1NoMask(v) ==
    IF Version(v) # 1 THEN [ts |-> Zero64, err |-> TRUE]
    ELSE LET low == BigEndianUint32(Sub(v, 0, 4))
             mid == BigEndianUint16(Sub(v, 4, 6))
             hi == BigEndianUint16(Sub(v, 6, 8))
         IN  [ts |-> Add64(Add64(Uint64From32(low), Shl64(Uint64From16(mid), 32)),
                           Shl64(Uint64From16(hi), 48)),
              err |-> FALSE]

TimestampFromV1(v) ==
    IF Version(v) # 1 THEN [ts |-> Zero64, err |-> TRUE]
    ELSE LET low == BigEndianUint32(Sub(v, 0, 4))
             mid == BigEndianUint16(Sub(v, 4, 6))
             hi == And(BigEndianUint16(Sub(v, 6, 8)), 4095)
         IN  [ts |-> Add64(Add64(Uint64From32(low), Shl64(Uint64From16(mid), 32)),
                           Shl64(Uint64From16(hi), 48)),
              err |-> FALSE]

TimestampFromV6(v) ==
    IF Version(v) # 6 THEN [ts |-> Zero64, err |-> TRUE]
    ELSE LET hi == BigEndianUint32(Sub(v, 0, 4))
             mid == BigEndianUint16(Sub(v, 4, 6))
             low == And(BigEndianUint16(Sub(v, 6, 8)), 4095)
         IN  [ts |-> Add64(Add64(Uint64From16(low), Shl64(Uint64From16(mid), 12)),
                           Shl64(Uint64From32(hi), 28)),
              err |-> FALSE]

----------------------------------------------------------------------------
(* The inputs the calls are made with *)

NumSeeds == 2

\* a receiver that is not the zero value unless k = 0
SeedUUID(k) == [i \in 0..(Size - 1) |-> (k * (17 * i + 59)) % 256]

SeedUUIDs == {SeedUUID(k) : k \in 0..(NumSeeds - 1)}

HexChar(n, upper) ==
    IF n < 10 THEN 48 + n ELSE IF upper THEN 55 + n ELSE 87 + n

\* 32 hex digits in one of three casings: lower, upper, alternating
HexText(k, casing) ==
    [i \in 1..32 |->
        HexChar((k * 7 + i * (2 * k + 3)) % 16,
                casing = 1 \/ (casing = 2 /\ i % 2 = 0))]

\* the digits of NamespaceDNS
dnsText ==
    <<54, 98, 97, 55, 98, 56, 49, 48, 57, 100, 97, 100, 49, 49, 100, 49,
      56, 48, 98, 52, 48, 48, 99, 48, 52, 102, 100, 52, 51, 48, 99, 56>>

HexTexts ==
    {HexText(k, c) : k \in 0..(NumSeeds - 1), c \in 0..2} \cup {dnsText}

Canonical(h) ==
    SubSeq(h, 1, 8) \o <<45>> \o SubSeq(h, 9, 12) \o <<45>> \o SubSeq(h, 13, 16)
        \o <<45>> \o SubSeq(h, 17, 20) \o <<45>> \o SubSeq(h, 21, 32)

Braced(b) == <<123>> \o b \o <<125>>

Urn(b) == urnPrefix \o b

Spellings(h) ==
    {h, Canonical(h), Braced(h), Braced(Canonical(h)), Urn(h), Urn(Canonical(h))}

\* characters next to the ends of the three hex ranges, and the markers:
\* / : @ G ` g - [ 0 F
ProbeChars == {47, 58, 64, 71, 96, 103, 45, 91, 48, 70}

Damaged(t) ==
    {[t EXCEPT ![p] = c] : p \in 1..Len(t), c \in ProbeChars}
        \cup {[t EXCEPT ![p] = t[p + 1], ![p + 1] = t[p]] : p \in 1..(Len(t) - 1)}
        \cup {SubSeq(t, 1, Len(t) - 1), SubSeq(t, 2, Len(t)), SubSeq(t, 2, Len(t) - 1),
              t \o <<48>>, t \o <<48, 48>>, <<48>> \o t, <<123>> \o t, t \o <<125>>}

TextInputs ==
    UNION {{t} \cup Damaged(t) : t \in UNION {Spellings(h) : h \in HexTexts}}
        \cup {<<>>}

----------------------------------------------------------------------------
(* The calls *)

NoTimestamp == <<>>

UnmarshalTextCall ==
    /\ pc = "start"
    /\ LET r == UnmarshalText(u, input)
       IN  /\ u' = r.u
           /\ err' = r.err
    /\ pre' = u
    /\ pc' = "UnmarshalText"
    /\ UNCHANGED <<input, out, res, ret, ts, calls, orig>>

\* FromString(input), or FromString of the text an encoder has just returned
FromStringCall ==
    /\ pc \in {"start", "String", "MarshalText"}
    /\ LET s == IF pc = "start" THEN input ELSE out
           r == FromString(s)
       IN  /\ res' = r.u
           /\ err' = r.err
           /\ input' = s
    /\ pre' = u
    /\ pc' = "FromString"
    /\ UNCHANGED <<u, out, ret, ts, calls, orig>>

StringCall ==
    /\ pc = "start"
    /\ out' = String(u)
    /\ err' = FALSE
    /\ pre' = u
    /\ pc' = "String"
    /\ UNCHANGED <<u, input, res, ret, ts, calls, orig>>

MarshalTextCall ==
    /\ pc = "start"
    /\ out' = MarshalText(u)
    /\ err' = FALSE
    /\ pre' = u
    /\ pc' = "MarshalText"
    /\ UNCHANGED <<u, input, res, ret, ts, calls, orig>>

----------------------------------------------------------------------------
(* Text decode: a receiver and a text are drawn, then decoded *)

InitDecode ==
    /\ u \in SeedUUIDs
    /\ input \in TextInputs
    /\ pre = u
    /\ out = <<>>
    /\ res = Nil
    /\ ret = 0
    /\ ts = NoTimestamp
    /\ err = FALSE
    /\ pc = "start"
    /\ calls = <<>>
    /\ orig = u

NextDecode ==
    \/ UnmarshalTextCall
    \/ FromStringCall

SpecDecode == InitDecode /\ [][NextDecode]_vars

(* Text encode: a UUID is drawn, encoded, and the text decoded again *)

EncodeUUIDs ==
    {[SeedUUID(k) EXCEPT ![p] = b] : k \in 0..(NumSeeds - 1), p \in 0..(Size - 1), b \in Byte}

InitEncode ==
    /\ u \in EncodeUUIDs
    /\ input = <<>>
    /\ pre = u
    /\ out = <<>>
    /\ res = Nil
    /\ ret = 0
    /\ ts = NoTimestamp
    /\ err = FALSE
    /\ pc = "start"
    /\ calls = <<>>
    /\ orig = u

NextEncode ==
    \/ StringCall
    \/ MarshalTextCall
    \/ FromStringCall

SpecEncode == InitEncode /\ [][NextEncode]_vars

----------------------------------------------------------------------------
(* Binary codec: a receiver and a slice are drawn, or a UUID to encode *)

MaxDataLen == 18

BinaryInputs ==
    {[i \in 1..n |-> (k * (29 * i + 101) + 7 * i) % 256] :
        n \in 0..MaxDataLen, k \in 0..NumSeeds}

UnmarshalBinaryCall ==
    /\ pc = "start"
    /\ LET r == UnmarshalBinary(u, input)
       IN  /\ u' = r.u
           /\ err' = r.err
    /\ pre' = u
    /\ pc' = "UnmarshalBinary"
    /\ UNCHANGED <<input, out, res, ret, ts, calls, orig>>

MarshalBinaryCall ==
    /\ pc = "start"
    /\ out' = MarshalBinary(u)
    /\ err' = FALSE
    /\ pre' = u
    /\ pc' = "MarshalBinary"
    /\ UNCHANGED <<u, input, res, ret, ts, calls, orig>>

BytesCall ==
    /\ pc = "start"
    /\ out' = Bytes(u)
    /\ err' = FALSE
    /\ pre' = u
    /\ pc' = "Bytes"
    /\ UNCHANGED <<u, input, res, ret, ts, calls, orig>>

\* FromBytes(input), or FromBytes of the slice an encoder has just returned
FromBytesCall ==
    /\ pc \in {"start", "Bytes", "MarshalBinary"}
    /\ LET d == IF pc = "start" THEN input ELSE out
           r == FromBytes(d)
       IN  /\ res' = r.u
           /\ err' = r.err
           /\ input' = d
    /\ pre' = u
    /\ pc' = "FromBytes"
    /\ UNCHANGED <<u, out, ret, ts, calls, orig>>

InitBinary ==
    /\ \/ u \in SeedUUIDs /\ input \in BinaryInputs
       \/ u \in EncodeUUIDs /\ input = <<>>
    /\ pre = u
    /\ out = <<>>
    /\ res = Nil
    /\ ret = 0
    /\ ts = NoTimestamp
    /\ err = FALSE
    /\ pc = "start"
    /\ calls = <<>>
    /\ orig = u

NextBinary ==
    \/ UnmarshalBinaryCall
    \/ MarshalBinaryCall
    \/ BytesCall
    \/ FromBytesCall

SpecBinary == InitBinary /\ [][NextBinary]_vars

----------------------------------------------------------------------------
(* Setters: a UUID is drawn and up to MaxCalls setter calls are made on it *)

MaxCalls == 2

Versions == 0..15

\* the four named variants, and two bytes that name none
VariantArgs == {VariantNCS, VariantRFC4122, VariantMicrosoft, VariantFuture, 4, 255}

SetVersionCall(ver) ==
    /\ Len(calls) < MaxCalls
    /\ u' = SetVersion(u, ver)
    /\ calls' = Append(calls, [op |-> "SetVersion", arg |-> ver, before |-> u])
    /\ pre' = u
    /\ pc' = "SetVersion"
    /\ UNCHANGED <<input, out, res, ret, ts, err, orig>>

SetVariantCall(x) ==
    /\ Len(calls) < MaxCalls
    /\ u' = SetVariant(u, x)
    /\ calls' = Append(calls, [op |-> "SetVariant", arg |-> x, before |-> u])
    /\ pre' = u
    /\ pc' = "SetVariant"
    /\ UNCHANGED <<input, out, res, ret, ts, err, orig>>

\* bytes 6 and 8 take values with every pattern of top bits over mixed low bits
SetterUUIDs ==
    {[SeedUUID(k) EXCEPT ![6] = a, ![8] = b] :
        k \in 0..(NumSeeds - 1), a \in {90, 255}, b \in {0, 42, 127, 149, 195, 255}}

InitSetters ==
    /\ u \in SetterUUIDs
    /\ input = <<>>
    /\ pre = u
    /\ out = <<>>
    /\ res = Nil
    /\ ret = 0
    /\ ts = NoTimestamp
    /\ err = FALSE
    /\ pc = "start"
    /\ calls = <<>>
    /\ orig = u

NextSetters ==
    \/ \E ver \in Versions : SetVersionCall(ver)
    \/ \E x \in VariantArgs : SetVariantCall(x)

SpecSetters == InitSetters /\ [][NextSetters]_vars

----------------------------------------------------------------------------
(* Accessors: a UUID with any byte 6 or any byte 8 is drawn and read *)

VersionCall ==
    /\ pc = "start"
    /\ ret' = Version(u)
    /\ pre' = u
    /\ pc' = "Version"
    /\ UNCHANGED <<u, input, out, res, ts, err, calls, orig>>

VariantCall ==
    /\ pc = "start"
    /\ ret' = Variant(u)
    /\ pre' = u
    /\ pc' = "Variant"
    /\ UNCHANGED <<u, input, out, res, ts, err, calls, orig>>

AccessorUUIDs ==
    {[SeedUUID(k) EXCEPT ![p] = b] : k \in 0..(NumSeeds - 1), p \in {6, 8}, b \in Byte}

InitAccessors ==
    /\ u \in AccessorUUIDs
    /\ input = <<>>
    /\ pre = u
    /\ out = <<>>
    /\ res = Nil
    /\ ret = 0
    /\ ts = NoTimestamp
    /\ err = FALSE
    /\ pc = "start"
    /\ calls = <<>>
    /\ orig = u

NextAccessors ==
    \/ VersionCall
    \/ VariantCall

SpecAccessors == InitAccessors /\ [][NextAccessors]_vars

----------------------------------------------------------------------------
(* Timestamps: bytes 0..7 are drawn, with every version, and extracted *)

TimestampFromV1Call ==
    /\ pc = "start"
    /\ LET r == TimestampFromV1(u)
       IN  /\ ts' = r.ts
           /\ err' = r.err
    /\ pre' = u
    /\ pc' = "TimestampFromV1"
    /\ UNCHANGED <<u, input, out, res, ret, calls, orig>>

TimestampFromV6Call ==
    /\ pc = "start"
    /\ LET r == TimestampFromV6(u)
       IN  /\ ts' = r.ts
           /\ err' = r.err
    /\ pre' = u
    /\ pc' = "TimestampFromV6"
    /\ UNCHANGED <<u, input, out, res, ret, calls, orig>>

TimeBytes == {(k * 113 + 18) % 256 : k \in 0..(NumSeeds - 1)}

TimeUUIDs ==
    {[i \in 0..(Size - 1) |->
        IF i = 6 THEN 16 * ver + lo
        ELSE IF i < 8 THEN f[i]
        ELSE SeedUUID(1)[i]] :
        f \in [{0, 1, 2, 3, 4, 5, 7} -> TimeBytes], ver \in Versions, lo \in {0, 9, 15}}

InitTime ==
    /\ u \in TimeUUIDs
    /\ input = <<>>
    /\ pre = u
    /\ out = <<>>
    /\ res = Nil
    /\ ret = 0
    /\ ts = NoTimestamp
    /\ err = FALSE
    /\ pc = "start"
    /\ calls = <<>>
    /\ orig = u

NextTime ==
    \/ TimestampFromV1Call
    \/ TimestampFromV6Call

SpecTime == InitTime /\ [][NextTime]_vars

----------------------------------------------------------------------------
(* What the properties are stated with *)

IsHexDigit(c) == c \in (48..57) \cup (97..102) \cup (65..70)

IsLowerHexDigit(c) == c \in (48..57) \cup (97..102)

\* the value of a hex digit, in either case
DigitValue(c) == CHOOSE n \in 0..15 : HexChar(n, TRUE) = c \/ HexChar(n, FALSE) = c

\* the UUID whose byte i is 16 * value(h[2i]) + value(h[2i+1])
HexValue(h) ==
    [i \in 0..(Size - 1) |-> 16 * DigitValue(h[2 * i + 1]) + DigitValue(h[2 * i + 2])]

HyphenPlaces == {9, 14, 19, 24}

IsHashLike(b) == Len(b) = 32 /\ \A k \in 1..32 : IsHexDigit(b[k])

IsCanonical(b) ==
    /\ Len(b) = 36
    /\ \A k \in 1..36 : IF k \in HyphenPlaces THEN b[k] = 45 ELSE IsHexDigit(b[k])

IsPlain(b) == IsHashLike(b) \/ IsCanonical(b)

\* one of the six accepted spellings
Accepted(t) ==
    \/ IsPlain(t)
    \/ Len(t) \in {34, 38} /\ t[1] = 123 /\ t[Len(t)] = 125
                           /\ IsPlain(SubSeq(t, 2, Len(t) - 1))
    \/ Len(t) \in {41, 45} /\ SubSeq(t, 1, 9) = urnPrefix
                           /\ IsPlain(SubSeq(t, 10, Len(t)))

nilText == [k \in 1..36 |-> IF k \in HyphenPlaces THEN 45 ELSE 48]

\* the 32 hexadecimal digits of a UUID, the most significant first
Digits(v) == [k \in 1..32 |-> IF k % 2 = 1 THEN v[(k - 1) \div 2] \div 16
                                           ELSE v[(k - 1) \div 2] % 16]

\* a uint64 from its 16 digits written the most significant first
FromDigits(d) == [k \in 1..16 |-> d[17 - k]]

\* x names this variant, unrecognized bytes naming Future
NamedVariant(x) ==
    IF x \in {VariantNCS, VariantRFC4122, VariantMicrosoft} THEN x ELSE VariantFuture

\* the number of top bits of byte 8 that SetVariant(x) writes
VariantWidth(x) ==
    IF x = VariantNCS THEN 1 ELSE IF x = VariantRFC4122 THEN 2 ELSE 3

\* the receiver after the i-th setter call
After(i) == IF i = Len(calls) THEN u ELSE calls[i + 1].before

----------------------------------------------------------------------------
(* Properties *)

\* C1: whenever UnmarshalText returns an error, all 16 bytes of the receiver
\* are what they were before the call.
C1_DecodeAllOrNothing ==
    (pc = "UnmarshalText" /\ err) => u = pre

\* C2: FromString(u.String()), and FromString of MarshalText's bytes, returns
\* no error and a value whose 16 bytes equal u.
C2_TextRoundTrip ==
    (pc = "FromString" /\ out # <<>>) => (input = out /\ ~err /\ res = u)

C2_Witness ==
    /\ pc = "FromString"
    /\ out # <<>>
    /\ res = u
    /\ u # Nil
    /\ \E k \in 1..36 : out[k] \in 97..102

\* C3: for every sequence h of 32 hex digits of either case, decoding any of
\* its six spellings succeeds and yields the UUID whose byte i is
\* 16 * value(h[2i]) + value(h[2i+1]).
C3_FormatEquivalence ==
    \A h \in HexTexts :
        input \in Spellings(h) =>
            /\ pc = "UnmarshalText" => (~err /\ u = HexValue(h))
            /\ pc = "FromString" => (~err /\ res = HexValue(h))

C3_Witness ==
    /\ pc = "UnmarshalText"
    /\ input = Urn(Canonical(HexText(1, 2)))
    /\ pre # Nil
    /\ u = HexValue(HexText(1, 2))
    /\ ~err

\* C4: UnmarshalText returns an error exactly for the inputs that are not one
\* of the six accepted spellings.
C4_ErrorIffNotAccepted ==
    pc \in {"UnmarshalText", "FromString"} => (err <=> ~Accepted(input))

C4_Witness ==
    /\ pc = "UnmarshalText"
    /\ err
    /\ Len(input) = 38
    /\ input[1] = 123
    /\ input[38] # 125
    /\ IsCanonical(SubSeq(input, 2, 37))

\* C5: UnmarshalBinary succeeds iff the slice has 16 bytes; when it fails the
\* receiver is unchanged, when it succeeds the receiver equals the slice byte
\* for byte, and FromBytes(u.Bytes()) is u.
C5_BinaryDecode ==
    /\ pc = "UnmarshalBinary" =>
        /\ err <=> Len(input) # 16
        /\ err => u = pre
        /\ ~err => \A i \in 0..15 : u[i] = input[i + 1]
    /\ pc = "FromBytes" =>
        /\ err <=> Len(input) # 16
        /\ ~err => \A i \in 0..15 : res[i] = input[i + 1]
        /\ out # <<>> => (input = out /\ ~err /\ res = u)

C5_Witness ==
    /\ pc = "UnmarshalBinary"
    /\ Len(input) = 17
    /\ err
    /\ u = pre
    /\ u # Nil

\* C6: SetVersion(v) then SetVariant(x) gives the bytes that SetVariant(x) then
\* SetVersion(v) gives, and afterwards Version() is v and Variant() is x, or
\* Future when x is none of NCS, RFC4122 and Microsoft.
C6_SettersCommute ==
    \A i \in 1..(Len(calls) - 1) :
        LET a == calls[i]
            b == calls[i + 1]
        IN  /\ (a.op = "SetVersion" /\ b.op = "SetVariant") =>
                /\ After(i + 1) = SetVersion(SetVariant(a.before, b.arg), a.arg)
                /\ Version(After(i + 1)) = a.arg
                /\ Variant(After(i + 1)) = NamedVariant(b.arg)
            /\ (a.op = "SetVariant" /\ b.op = "SetVersion") =>
                /\ After(i + 1) = SetVariant(SetVersion(a.before, b.arg), a.arg)
                /\ Version(After(i + 1)) = b.arg
                /\ Variant(After(i + 1)) = NamedVariant(a.arg)

C6_Witness ==
    /\ Len(calls) = 2
    /\ calls[1].op = "SetVersion" /\ calls[1].arg = 6
    /\ calls[2].op = "SetVariant" /\ calls[2].arg = 4
    /\ Version(orig) = 15
    /\ Variant(orig) = VariantNCS
    /\ Version(u) = 6
    /\ Variant(u) = VariantFuture

\* C7: TimestampFromV1 succeeds iff the version is 1 and TimestampFromV6 iff it
\* is 6; the V1 timestamp is time_hi (12 bits), time_mid, time_low from the
\* most significant end, the V6 timestamp is bytes 0..3, bytes 4..5 and the low
\* 12 bits of bytes 6..7; a failed call returns 0; every timestamp is below
\* 2^60.
C7_TimestampExtraction ==
    LET d == Digits(u) IN
    /\ pc = "TimestampFromV1" =>
        /\ err <=> u[6] \div 16 # 1
        /\ err => ts = Zero64
        /\ ~err => ts = FromDigits(<<0>> \o SubSeq(d, 14, 16) \o SubSeq(d, 9, 12)
                                        \o SubSeq(d, 1, 8))
    /\ pc = "TimestampFromV6" =>
        /\ err <=> u[6] \div 16 # 6
        /\ err => ts = Zero64
        /\ ~err => ts = FromDigits(<<0>> \o SubSeq(d, 1, 8) \o SubSeq(d, 9, 12)
                                        \o SubSeq(d, 14, 16))
    /\ pc \in {"TimestampFromV1", "TimestampFromV6"} => ts[16] = 0

C7_Witness ==
    /\ pc = "TimestampFromV1"
    /\ ~err
    /\ ts # Zero64
    /\ ts[15] = 15
    /\ ts[1] # ts[9]

\* C8: String() and MarshalText() give exactly 36 characters, '-' at offsets 8,
\* 13, 18 and 23 and a lowercase hex digit at every other offset; for the nil
\* UUID they give "00000000-0000-0000-0000-000000000000".
C8_EncodeForm ==
    pc \in {"String", "MarshalText"} =>
        /\ Len(out) = 36
        /\ \A k \in 1..36 :
            IF k \in HyphenPlaces THEN out[k] = 45 ELSE IsLowerHexDigit(out[k])
        /\ u = Nil => out = nilText

C8_Witness ==
    /\ pc = "MarshalText"
    /\ u # Nil
    /\ \E k \in 1..36 : out[k] \in 97..102
    /\ \E k \in 1..36 : out[k] \in 49..57

\* C9: Variant() is decided by byte 8 alone: 0x00-0x7f is NCS, 0x80-0xbf is
\* RFC4122, 0xc0-0xdf is Microsoft, 0xe0-0xff is Future, and the switch never
\* falls to its default arm.
C9_VariantPartition ==
    pc = "Variant" =>
        /\ u[8] \in 0..127 => ret = VariantNCS
        /\ u[8] \in 128..191 => ret = VariantRFC4122
        /\ u[8] \in 192..223 => ret = VariantMicrosoft
        /\ u[8] \in 224..255 => ret = VariantFuture
        /\ VariantArm(u) \in 1..4
        /\ VariantArm(u) = 4 <=> u[8] \in 224..255

C9_Witness ==
    /\ pc = "Variant"
    /\ u[8] = 191
    /\ ret = VariantRFC4122

\* C10: after any sequence of setter calls everything but the high nibble of
\* byte 6 and the top 3 bits of byte 8 is as it was at the start; SetVersion
\* changes nothing but the high nibble of byte 6, SetVariant nothing but the
\* top 1 (NCS), 2 (RFC4122) or 3 (any other argument) bits of byte 8.
C10_SetterFrame ==
    /\ \A i \in (0..15) \ {6, 8} : u[i] = orig[i]
    /\ u[6] % 16 = orig[6] % 16
    /\ u[8] % 32 = orig[8] % 32
    /\ pc = "SetVersion" =>
        /\ \A i \in (0..15) \ {6} : u[i] = pre[i]
        /\ u[6] % 16 = pre[6] % 16
    /\ pc = "SetVariant" =>
        LET w == VariantWidth(calls[Len(calls)].arg) IN
        /\ \A i \in (0..15) \ {8} : u[i] = pre[i]
        /\ u[8] % (2 ^ (8 - w)) = pre[8] % (2 ^ (8 - w))

C10_Witness ==
    /\ pc = "SetVariant"
    /\ calls[Len(calls)].arg = VariantNCS
    /\ pre[8] = 255
    /\ u[8] = 127
    /\ Len(calls) = 2

====
